---------------------------- MODULE Spec2Model ----------------------------
(***************************************************************************)
(* A model of src/libs/filamentjs/utilities.js: the IcoSphere generator,   *)
(* packSnorm16, the Buffer / PixelBuffer wrappers, loadFilamesh and the    *)
(* KTX / PNG texture helpers.                                              *)
(***************************************************************************)
EXTENDS Integers, Sequences, FiniteSets

VARIABLES
  \* ---- IcoSphere (constructor and subdivide) ----
  icoPc,        \* position inside the constructor / subdivide
  nsubdivsArg,  \* the constructor's argument as the caller gave it
  nsubdivs,     \* the constructor's parameter, counted down by the while loop
  gen,          \* number of completed subdivide calls: names the contents of
                \* this.triangles / this.vertices (see triangles(g, p) below)
  trianglesLength,  \* this.triangles.length
  verticesLength,   \* this.vertices.length
  tangentsLength,   \* this.tangents.length (-1 before it is allocated)
  loc,          \* the locals of the running subdivide call
  wrote,        \* what the last iteration of subdivide's loop stored
  \* ---- packSnorm16 ----
  packValue,    \* the argument
  packDone,     \* whether the call has returned
  packResult,   \* the value returned
  \* ---- Buffer / PixelBuffer ----
  heap,         \* the bytes of the WASM heap (Filament.HEAPU32.buffer)
  jsmem,        \* the bytes of the caller's own ArrayBuffer
  typedarray,   \* the argument: a view on one of the two buffers
  atCall,       \* the argument's bytes when the wrapper was called
  bd,           \* the descriptor returned
  bufPc,        \* "call" before the wrapper runs, "returned" after
  heapWrites,   \* number of stores into the heap since the wrapper returned
  \* ---- createTextureFromKtx / createTextureFromPng ----
  texPc,        \* position inside the helper
  texArgs,      \* the helper called, its options and what the file holds
  texLocals,    \* texformat, pbformat, pbtype, level
  texLog,       \* the calls made on the engine and the console, in order
  texRet,       \* the value returned
  \* ---- loadFilamesh ----
  meshPc,       \* position inside loadFilamesh
  callerObj,    \* the caller's matinstances object (or Undefined)
  definstance,  \* the caller's definstance (or Undefined)
  matinstances, \* the object the local variable matinstances refers to
  registry      \* the MaterialRegistry: name -> MaterialInstance

icoVars == <<icoPc, nsubdivsArg, nsubdivs, gen, trianglesLength, verticesLength,
             tangentsLength, loc, wrote>>

packVars == <<packValue, packDone, packResult>>

bufVars == <<heap, jsmem, typedarray, atCall, bd, bufPc, heapWrites>>

texVars == <<texPc, texArgs, texLocals, texLog, texRet>>

meshVars == <<meshPc, callerObj, definstance, matinstances, registry>>

vars == <<icoVars, packVars, bufVars, texVars, meshVars>>

\* The variables of the other parts, which a part's actions leave unchanged.
NotIco == <<packVars, bufVars, texVars, meshVars>>

NotPack == <<icoVars, bufVars, texVars, meshVars>>

NotBuf == <<icoVars, packVars, texVars, meshVars>>

NotTex == <<icoVars, packVars, bufVars, meshVars>>

NotMesh == <<icoVars, packVars, bufVars, texVars>>

-----------------------------------------------------------------------------
(***************************************************************************)
(* Bounds of the model.                                                    *)
(***************************************************************************)
MaxSubdivs == 6

\* packSnorm16 is given the numbers n / PackDen, -MaxPackNum <= n <= MaxPackNum,
\* and the two infinities.
PackDen == 16

MaxPackNum == 56

\* The buffers handed to Buffer / PixelBuffer have HeapBytes bytes.
HeapBytes == 4

\* The stores into the heap followed after a wrapper returned.
MaxHeapWrites == 1

\* The byte values they hold: 0, 1, 63 and 128 (the bytes 0, 0, 128, 63 are the
\* float32 1.0).
ByteVals == {0, 1, 63, 128}

\* A KTX bundle has 1..MaxLevels mip levels.
MaxLevels == 3

\* 0xff, the level count createTextureFromPng asks for when it generates mipmaps.
PngLevels == 255

\* 32767.0, the scale of packSnorm16.
Snorm16Max == 32767

-----------------------------------------------------------------------------
(***************************************************************************)
(* IcoSphere.                                                              *)
(*                                                                         *)
(* The two arrays of an IcoSphere are a function of the number of          *)
(* subdivide calls made on it.  The state keeps their lengths, the locals  *)
(* of the running subdivide call and the elements its last loop iteration  *)
(* stored; an element of an array that an earlier call produced is read    *)
(* through triangles(g, p) / vertices(g, v), which recompute it the way    *)
(* that call's loop stored it.                                             *)
(***************************************************************************)

\* A store into a Uint16Array keeps the value modulo 2^16.
Uint16(x) == x % 65536

\* The index data of the icosahedron (new Uint16Array([...])).
IcosahedronTriangles ==
  <<  1,  4,  0,   4,  9,  0,   4,  5,  9,   8,  5,  4,   1,  8,  4,
      1, 10,  8,  10,  3,  8,   8,  3,  5,   3,  2,  5,   3,  7,  2,
      3, 10,  7,  10,  6,  7,   6, 11,  7,   6,  0, 11,   6,  1,  0,
     10,  1,  6,  11,  0,  9,   2, 11,  9,   5,  2,  9,  11,  2,  7 >>

\* The icosahedron has 12 vertices of 3 floats each (new Float32Array([...])).
IcosahedronVerticesLength == 36

\* A subdivide that makes three triangles of each triangle.
ndsttrisOfThree(nsrctris) == nsrctris * 3

\* const ndsttris = nsrctris * 4;
ndsttrisOf(nsrctris) == nsrctris * 4

\* A subdivide that adds one vertex per triangle.
ndstvertsOfOne(nsrcverts, nsrctris) == nsrcverts + nsrctris

\* const ndstverts = nsrcverts + nsrctris * 3;
ndstvertsOf(nsrcverts, nsrctris) == nsrcverts + nsrctris * 3

\* The value the loop body assigns to dsttris[dstind + k], k = 0..11, before the
\* store truncates it: the twelve assignments dsttris[dstind++] = ... in order.
dsttrisEntry(k, i0, i1, i2, i3, i4, i5) ==
  CASE k = 0  -> i0 \div 3
    [] k = 1  -> i3 \div 3
    [] k = 2  -> i5 \div 3
    [] k = 3  -> i3 \div 3
    [] k = 4  -> i1 \div 3
    [] k = 5  -> i4 \div 3
    [] k = 6  -> i5 \div 3
    [] k = 7  -> i3 \div 3
    [] k = 8  -> i4 \div 3
    [] k = 9  -> i2 \div 3
    [] k = 10 -> i5 \div 3
    [] k = 11 -> i4 \div 3

\* vec3.normalize(out, vec3.add(out, va, vb)) where va and vb are the vertices
\* at float offsets ia and ib of srcverts: the normalized midpoint, kept as
\* the pair of vertex slots it was computed from.
Midpoint(ia, ib) == [a |-> ia \div 3, b |-> ib \div 3]

\* triangles.length and vertices.length of an IcoSphere after g subdivide calls.
RECURSIVE LengthsAfter(_)
LengthsAfter(g) ==
  IF g = 0
    THEN [triangles |-> Len(IcosahedronTriangles), vertices |-> IcosahedronVerticesLength]
    ELSE LET src == LengthsAfter(g - 1)
             nsrctris == src.triangles \div 3
             nsrcverts == src.vertices \div 3
         IN [triangles |-> ndsttrisOf(nsrctris) * 3,
             vertices  |-> ndstvertsOf(nsrcverts, nsrctris) * 3]

\* this.triangles[p] of an IcoSphere after g subdivide calls.
RECURSIVE triangles(_, _)
triangles(g, p) ==
  IF g = 0
    THEN IcosahedronTriangles[p + 1]
    ELSE LET tri == p \div 12
             i0 == triangles(g - 1, 3 * tri) * 3
             i1 == triangles(g - 1, 3 * tri + 1) * 3
             i2 == triangles(g - 1, 3 * tri + 2) * 3
             i3 == LengthsAfter(g - 1).vertices + 9 * tri
             i4 == i3 + 3
             i5 == i4 + 3
         IN Uint16(dsttrisEntry(p % 12, i0, i1, i2, i3, i4, i5))

\* Vertex v (the floats 3v .. 3v+2 of this.vertices) of an IcoSphere after g
\* subdivide calls: a vertex of the icosahedron, or a midpoint.
\* dstverts.set(srcverts) keeps the source vertices at their offsets.
RECURSIVE vertices(_, _)
vertices(g, v) ==
  IF g = 0
    THEN [base |-> v]
    ELSE LET nsrcverts == LengthsAfter(g - 1).vertices \div 3
             tri == (v - nsrcverts) \div 3
             i0 == triangles(g - 1, 3 * tri) * 3
             i1 == triangles(g - 1, 3 * tri + 1) * 3
             i2 == triangles(g - 1, 3 * tri + 2) * 3
         IN IF v < nsrcverts THEN vertices(g - 1, v)
            ELSE CASE (v - nsrcverts) % 3 = 0 -> Midpoint(i0, i1)
                   [] (v - nsrcverts) % 3 = 1 -> Midpoint(i1, i2)
                   [] (v - nsrcverts) % 3 = 2 -> Midpoint(i2, i0)

NoLocals == [nsrctris |-> 0, nsrcverts |-> 0, ndsttris |-> 0, ndstverts |-> 0,
             tri |-> 0, srcind |-> 0, dstind |-> 0, i3 |-> 0, i4 |-> 0, i5 |-> 0]

NothingWritten == [tris |-> <<>>, verts |-> <<>>]

\* new Filament.IcoSphere(nsubdivs): the two array literals.
IcoInit ==
  /\ nsubdivsArg \in 0..MaxSubdivs
  /\ nsubdivs = nsubdivsArg
  /\ icoPc = "while"
  /\ gen = 0
  /\ trianglesLength = Len(IcosahedronTriangles)
  /\ verticesLength = IcosahedronVerticesLength
  /\ tangentsLength = -1
  /\ loc = NoLocals
  /\ wrote = NothingWritten

\* if (nsubdivs) { while (nsubdivs-- > 0) { this.subdivide(); } }, the call:
\* subdivide's declarations up to the loop's initialisation.
SubdivideCall ==
  /\ icoPc = "while"
  /\ nsubdivs > 0
  /\ nsubdivs' = nsubdivs - 1
  /\ LET nsrctris == trianglesLength \div 3
         nsrcverts == verticesLength \div 3
     IN loc' = [nsrctris |-> nsrctris,
                nsrcverts |-> nsrcverts,
                ndsttris |-> ndsttrisOf(nsrctris),
                ndstverts |-> ndstvertsOf(nsrcverts, nsrctris),
                tri |-> 0, srcind |-> 0, dstind |-> 0,
                i3 |-> nsrcverts * 3,
                i4 |-> nsrcverts * 3 + 3,
                i5 |-> nsrcverts * 3 + 3 + 3]
  /\ wrote' = NothingWritten
  /\ icoPc' = "for"
  /\ UNCHANGED <<nsubdivsArg, gen, trianglesLength, verticesLength, tangentsLength>>
  /\ UNCHANGED NotIco

\* One iteration of for (var tri = 0; tri < nsrctris; tri++, i3 += 9, ...).
SubdivideStep ==
  /\ icoPc = "for"
  /\ loc.tri < loc.nsrctris
  /\ LET i0 == triangles(gen, loc.srcind) * 3
         i1 == triangles(gen, loc.srcind + 1) * 3
         i2 == triangles(gen, loc.srcind + 2) * 3
     IN wrote' = [tris  |-> [k \in 1..12 |->
                               Uint16(dsttrisEntry(k - 1, i0, i1, i2, loc.i3, loc.i4, loc.i5))],
                  verts |-> <<Midpoint(i0, i1), Midpoint(i1, i2), Midpoint(i2, i0)>>]
  /\ loc' = [loc EXCEPT !.srcind = @ + 3, !.dstind = @ + 12, !.tri = @ + 1,
                        !.i3 = @ + 9, !.i4 = @ + 9, !.i5 = @ + 9]
  /\ UNCHANGED <<icoPc, nsubdivsArg, nsubdivs, gen, trianglesLength, verticesLength,
                 tangentsLength>>
  /\ UNCHANGED NotIco

\* The loop is over: this.triangles = dsttris; this.vertices = dstverts; return.
SubdivideReturn ==
  /\ icoPc = "for"
  /\ ~(loc.tri < loc.nsrctris)
  /\ trianglesLength' = loc.ndsttris * 3
  /\ verticesLength' = loc.ndstverts * 3
  /\ gen' = gen + 1
  /\ icoPc' = "while"
  /\ UNCHANGED <<nsubdivsArg, nsubdivs, tangentsLength, loc, wrote>>
  /\ UNCHANGED NotIco

\* The while loop is over (or was skipped): the tangents array is allocated and
\* filled, one quaternion of four 16-bit values per vertex.
IcoTangents ==
  /\ icoPc = "while"
  /\ ~(nsubdivs > 0)
  /\ nsubdivs' = IF nsubdivsArg # 0 THEN nsubdivs - 1 ELSE nsubdivs
  /\ tangentsLength' = 4 * (verticesLength \div 3)
  /\ icoPc' = "done"
  /\ UNCHANGED <<nsubdivsArg, gen, trianglesLength, verticesLength, loc, wrote>>
  /\ UNCHANGED NotIco

IcoNext == SubdivideCall \/ SubdivideStep \/ SubdivideReturn \/ IcoTangents

-----------------------------------------------------------------------------
(***************************************************************************)
(* packSnorm16.                                                            *)
(*                                                                         *)
(* A JavaScript number is kept exactly: a finite value is the rational     *)
(* num / PackDen (inf = 0), the two infinities have inf = 1 and inf = -1.  *)
(***************************************************************************)

Finite(n) == [inf |-> 0, num |-> n]

PlusInfinity == [inf |-> 1, num |-> 0]

MinusInfinity == [inf |-> -1, num |-> 0]

\* a < b on JavaScript numbers.
NumLess(a, b) ==
  \/ a.inf < b.inf
  \/ a.inf = 0 /\ b.inf = 0 /\ a.num < b.num

MathMin(a, b) == IF NumLess(b, a) THEN b ELSE a

MathMax(a, b) == IF NumLess(a, b) THEN b ELSE a

\* A clamp with its two bounds exchanged.
clampExchanged(v, least, most) == MathMax(MathMin(least, v), most)

\* function clamp(v, least, most) { return Math.max(Math.min(most, v), least); }
clamp(v, least, most) == MathMax(MathMin(most, v), least)

\* x * k for a finite x.
Times(x, k) == Finite(x.num * k)

\* Math.round of a finite x: the integer nearest to x, a tie going up.
MathRound(x) == (2 * x.num + PackDen) \div (2 * PackDen)

\* Filament.packSnorm16 = function(value) {
\*   return Math.round(clamp(value, -1.0, 1.0) * 32767.0); }
packSnorm16(value) ==
  MathRound(Times(clamp(value, Finite(-PackDen), Finite(PackDen)), Snorm16Max))

PackInputs ==
  {Finite(n) : n \in -MaxPackNum..MaxPackNum} \cup {PlusInfinity, MinusInfinity}

PackInit ==
  /\ packValue \in PackInputs
  /\ packDone = FALSE
  /\ packResult = 0

PackCall ==
  /\ ~packDone
  /\ packResult' = packSnorm16(packValue)
  /\ packDone' = TRUE
  /\ UNCHANGED packValue
  /\ UNCHANGED NotPack

PackNext == PackCall

-----------------------------------------------------------------------------
(***************************************************************************)
(* Buffer and PixelBuffer.                                                 *)
(*                                                                         *)
(* An ArrayBuffer is the sequence of its bytes (the byte at offset a is    *)
(* element a + 1).  A typed array is a view: the buffer it is on ("heap",  *)
(* the WASM heap, or "js", an ArrayBuffer of the caller's), its element    *)
(* type, its byteOffset and its length in elements.                        *)
(***************************************************************************)

ElementTypes == {"Uint8Array", "Uint16Array", "Float32Array"}

BYTES_PER_ELEMENT(type) ==
  CASE type = "Uint8Array" -> 1
    [] type = "Uint16Array" -> 2
    [] type = "Float32Array" -> 4

byteLength(ta) == ta.length * BYTES_PER_ELEMENT(ta.type)

\* new Uint8Array(ta.buffer, ta.byteOffset, ta.byteLength): the bytes the view covers.
ViewBytes(mem, ta) == [i \in 1..byteLength(ta) |-> mem[ta.byteOffset + i]]

RECURSIVE Pow2(_)
Pow2(n) == IF n = 0 THEN 1 ELSE 2 * Pow2(n - 1)

\* ToUint8 of the float32 whose little-endian bytes are b0 b1 b2 b3: NaN, the
\* infinities and every value of magnitude below 1 give 0, any other value is
\* truncated toward zero and taken modulo 256.
Float32ToUint8(b0, b1, b2, b3) ==
  LET sign == b3 \div 128
      exponent == (b3 % 128) * 2 + b2 \div 128
      significand == 8388608 + (b2 % 128) * 65536 + b1 * 256 + b0
      magnitude ==
        IF exponent = 255 \/ exponent < 127 THEN 0
        ELSE IF exponent < 150 THEN (significand \div Pow2(150 - exponent)) % 256
        ELSE IF exponent < 158 THEN ((significand % 256) * Pow2(exponent - 150)) % 256
        ELSE 0
  IN IF sign = 0 THEN magnitude ELSE (256 - magnitude) % 256

\* ToUint8 of element i (from 0) of the view ta on mem.
ElementToUint8(mem, ta, i) ==
  LET at == ta.byteOffset + i * BYTES_PER_ELEMENT(ta.type)
  IN CASE ta.type = "Uint8Array" -> mem[at + 1]
       [] ta.type = "Uint16Array" -> (mem[at + 1] + 256 * mem[at + 2]) % 256
       [] ta.type = "Float32Array" ->
            Float32ToUint8(mem[at + 1], mem[at + 2], mem[at + 3], mem[at + 4])

\* new Uint8Array(typedarray): a new array on a buffer of its own, with the
\* LENGTH of typedarray and element i = ToUint8(typedarray[i]).
NewUint8Array(mem, ta) == [i \in 1..ta.length |-> ElementToUint8(mem, ta, i - 1)]

\* new Filament.driver$BufferDescriptor(ta) / driver$PixelBufferDescriptor(ta, ...):
\* the descriptor allocates ta.byteLength bytes of heap memory that nothing else
\* uses; here, at the end of the heap.
DescriptorAlloc(heapmem, size) ==
  [heap |-> heapmem \o [i \in 1..size |-> 0], ptr |-> Len(heapmem)]

\* The body the two wrappers share, from the test of the argument's buffer to
\* bd.getBytes().set(uint8array): the bytes of ta (the temporary copy, or the
\* argument itself) are stored in the memory the descriptor allocated.
\* Gives the heap afterwards and where the descriptor's bytes are.
CopyIntoHeap(ta, heapmem, jsmemory) ==
  LET tabytes == IF ta.buffer = "heap"
                   THEN NewUint8Array(heapmem, ta)
                   ELSE ViewBytes(jsmemory, ta)
      alloc == DescriptorAlloc(heapmem, Len(tabytes))
  IN [heap |-> [a \in 1..Len(alloc.heap) |->
                  IF a > alloc.ptr /\ a <= alloc.ptr + Len(tabytes)
                    THEN tabytes[a - alloc.ptr] ELSE alloc.heap[a]],
      ptr |-> alloc.ptr, size |-> Len(tabytes)]

\* bd.getBytes(): the descriptor's bytes.
getBytes(desc, heapmem) == [i \in 1..desc.size |-> heapmem[desc.ptr + i]]

NoDescriptor == [ptr |-> 0, size |-> 0, format |-> "none", datatype |-> "none"]

\* The views of the given element type that fit a buffer of HeapBytes bytes,
\* aligned to the element size and not empty (console.assert(byteLength > 0)).
ViewsOn(buffer) ==
  {ta \in [buffer : {buffer}, type : ElementTypes,
           byteOffset : 0..(HeapBytes - 1), length : 1..HeapBytes] :
     /\ ta.byteOffset % BYTES_PER_ELEMENT(ta.type) = 0
     /\ ta.byteOffset + byteLength(ta) <= HeapBytes}

BufInit ==
  /\ typedarray \in ViewsOn("heap") \cup ViewsOn("js")
  /\ \E contents \in [1..HeapBytes -> ByteVals] :
       /\ heap = IF typedarray.buffer = "heap" THEN contents ELSE [a \in 1..HeapBytes |-> 0]
       /\ jsmem = IF typedarray.buffer = "js" THEN contents ELSE <<>>
  /\ atCall = <<>>
  /\ bd = NoDescriptor
  /\ bufPc = "call"
  /\ heapWrites = 0

\* Filament.Buffer(typedarray)
Buffer ==
  /\ bufPc = "call"
  /\ atCall' = ViewBytes(IF typedarray.buffer = "heap" THEN heap ELSE jsmem, typedarray)
  /\ LET r == CopyIntoHeap(typedarray, heap, jsmem)
     IN /\ heap' = r.heap
        /\ bd' = [ptr |-> r.ptr, size |-> r.size, format |-> "none", datatype |-> "none"]
  /\ bufPc' = "returned"
  /\ UNCHANGED <<jsmem, typedarray, heapWrites>>
  /\ UNCHANGED NotBuf

\* Filament.PixelBuffer(typedarray, format, datatype)
PixelBuffer ==
  /\ bufPc = "call"
  /\ atCall' = ViewBytes(IF typedarray.buffer = "heap" THEN heap ELSE jsmem, typedarray)
  /\ \E format \in {"RGB", "RGBA", "RGBM"}, datatype \in {"UBYTE"} :
       LET r == CopyIntoHeap(typedarray, heap, jsmem)
       IN /\ heap' = r.heap
          /\ bd' = [ptr |-> r.ptr, size |-> r.size, format |-> format, datatype |-> datatype]
  /\ bufPc' = "returned"
  /\ UNCHANGED <<jsmem, typedarray, heapWrites>>
  /\ UNCHANGED NotBuf

\* After the wrapper returned, the engine (or the script) stores a byte in the
\* heap region the argument viewed.
HeapWrite ==
  /\ bufPc = "returned"
  /\ heapWrites < MaxHeapWrites
  /\ typedarray.buffer = "heap"
  /\ \E a \in 1..byteLength(typedarray), b \in ByteVals :
       /\ heap[typedarray.byteOffset + a] # b
       /\ heap' = [heap EXCEPT ![typedarray.byteOffset + a] = b]
  /\ heapWrites' = heapWrites + 1
  /\ UNCHANGED <<jsmem, typedarray, atCall, bd, bufPc>>
  /\ UNCHANGED NotBuf

BufNext == Buffer \/ PixelBuffer \/ HeapWrite

-----------------------------------------------------------------------------
(***************************************************************************)
(* createTextureFromKtx and createTextureFromPng.                          *)
(*                                                                         *)
(* texLog records, in order, every call the helper makes on the engine,    *)
(* on the decoders and on the console.                                     *)
(***************************************************************************)

\* ktx.info().glInternalFormat: gl.RGB, gl.RGBA, and two formats the switch
\* has no case for.
GlFormats == {"RGB", "RGBA", "LUMINANCE", "RGB16F"}

\* A switch whose default falls into the RGBA case.
ktxSwitchFallThrough(ktxformat, rgbm) ==
  IF ktxformat = "RGB"
    THEN [supported |-> TRUE, texformat |-> "RGB8", pbformat |-> "RGB", pbtype |-> "UBYTE"]
    ELSE [supported |-> TRUE, texformat |-> "RGBA8",
          pbformat |-> IF rgbm THEN "RGBM" ELSE "RGBA", pbtype |-> "UBYTE"]

\* switch (ktxformat) { case gl.RGB: ... case gl.RGBA: ... default: ... }
ktxSwitch(ktxformat, rgbm) ==
  CASE ktxformat = "RGB" ->
         [supported |-> TRUE, texformat |-> "RGB8", pbformat |-> "RGB", pbtype |-> "UBYTE"]
    [] ktxformat = "RGBA" ->
         [supported |-> TRUE, texformat |-> "RGBA8",
          pbformat |-> IF rgbm THEN "RGBM" ELSE "RGBA", pbtype |-> "UBYTE"]
    [] OTHER ->
         [supported |-> FALSE, texformat |-> "undefined", pbformat |-> "undefined",
          pbtype |-> "undefined"]

\* if (noalpha) { ... } else { ... } of createTextureFromPng.
pngFormats(noalpha, rgbm) ==
  IF noalpha
    THEN [supported |-> TRUE, texformat |-> "RGB8", pbformat |-> "RGB", pbtype |-> "UBYTE"]
    ELSE [supported |-> TRUE, texformat |-> "RGBA8",
          pbformat |-> IF rgbm THEN "RGBM" ELSE "RGBA", pbtype |-> "UBYTE"]

\* Filament.Texture.Builder().width(..).height(..).levels(levels).sampler(sampler)
\*   .format(texformat).rgbm(rgbm).build(engine)
textureBuild(levels, sampler, texformat, rgbm) ==
  [op |-> "Texture.Builder.build", levels |-> levels, sampler |-> sampler,
   format |-> texformat, rgbm |-> rgbm]

\* One iteration of the upload loops of createTextureFromKtx: the blob read,
\* wrapped in a PixelBuffer and handed to setImageCube or setImage.
ktxUpload(cubemap, level, pbformat, pbtype) ==
  IF cubemap
    THEN [op |-> "setImageCube", level |-> level, blob |-> <<"getCubeBlob", level>>,
          pbformat |-> pbformat, pbtype |-> pbtype]
    ELSE [op |-> "setImage", level |-> level, blob |-> <<"getBlob", level, 0, 0>>,
          pbformat |-> pbformat, pbtype |-> pbtype]

\* An upload loop that stops one level early.
ktxMoreLevelsShort(level, nlevels) == level + 1 < nlevels

\* level < nlevels, the test of the upload loops.
ktxMoreLevels(level, nlevels) == level < nlevels

NoTexLocals == [supported |-> FALSE, texformat |-> "undefined", pbformat |-> "undefined",
                pbtype |-> "undefined", level |-> 0]

TexInit ==
  /\ \/ texArgs \in [fn : {"createTextureFromKtx"}, rgbm : BOOLEAN, ktxGiven : BOOLEAN,
                      glInternalFormat : GlFormats, isCubemap : BOOLEAN,
                      nlevels : 1..MaxLevels, noalpha : {FALSE}, nomips : {FALSE}]
     \/ texArgs \in [fn : {"createTextureFromPng"}, rgbm : BOOLEAN, ktxGiven : {FALSE},
                      glInternalFormat : {"RGBA"}, isCubemap : {FALSE},
                      nlevels : {1}, noalpha : BOOLEAN, nomips : BOOLEAN]
  /\ texPc = "start"
  /\ texLocals = NoTexLocals
  /\ texLog = <<>>
  /\ texRet = "none"

\* const ktx = options['ktx'] || new Filament.KtxBundle(Filament.Buffer(ktxdata));
\* and the reads of nlevels, ktxformat and rgbm.
KtxOpen ==
  /\ texArgs.fn = "createTextureFromKtx"
  /\ texPc = "start"
  /\ texLog' = IF texArgs.ktxGiven THEN texLog
                ELSE texLog \o <<[op |-> "Buffer"], [op |-> "new KtxBundle"]>>
  /\ texPc' = "switch"
  /\ UNCHANGED <<texArgs, texLocals, texRet>>
  /\ UNCHANGED NotTex

\* The switch on a format it has a case for.
KtxSwitch ==
  /\ texArgs.fn = "createTextureFromKtx"
  /\ texPc = "switch"
  /\ LET f == ktxSwitch(texArgs.glInternalFormat, texArgs.rgbm)
     IN /\ f.supported
        /\ texLocals' = [supported |-> TRUE, texformat |-> f.texformat,
                          pbformat |-> f.pbformat, pbtype |-> f.pbtype, level |-> 0]
  /\ texPc' = "build"
  /\ UNCHANGED <<texArgs, texLog, texRet>>
  /\ UNCHANGED NotTex

\* The switch's default: console.error('Unsupported KTX format.'); return null;
KtxUnsupported ==
  /\ texArgs.fn = "createTextureFromKtx"
  /\ texPc = "switch"
  /\ ~ktxSwitch(texArgs.glInternalFormat, texArgs.rgbm).supported
  /\ texLog' = Append(texLog, [op |-> "console.error"])
  /\ texRet' = "null"
  /\ texPc' = "returned"
  /\ UNCHANGED <<texArgs, texLocals>>
  /\ UNCHANGED NotTex

\* const tex = Filament.Texture.Builder(). ... .build(engine);
KtxBuild ==
  /\ texArgs.fn = "createTextureFromKtx"
  /\ texPc = "build"
  /\ texLog' = Append(texLog,
                  textureBuild(texArgs.nlevels,
                               IF texArgs.isCubemap THEN "SAMPLER_CUBEMAP" ELSE "SAMPLER_2D",
                               texLocals.texformat, texArgs.rgbm))
  /\ texPc' = "upload"
  /\ UNCHANGED <<texArgs, texLocals, texRet>>
  /\ UNCHANGED NotTex

\* One iteration of for (var level = 0; level < nlevels; level++) { ... }
KtxUpload ==
  /\ texArgs.fn = "createTextureFromKtx"
  /\ texPc = "upload"
  /\ ktxMoreLevels(texLocals.level, texArgs.nlevels)
  /\ texLog' = Append(texLog, ktxUpload(texArgs.isCubemap, texLocals.level,
                                         texLocals.pbformat, texLocals.pbtype))
  /\ texLocals' = [texLocals EXCEPT !.level = @ + 1]
  /\ UNCHANGED <<texArgs, texPc, texRet>>
  /\ UNCHANGED NotTex

\* The loop is over: return tex;
KtxReturn ==
  /\ texArgs.fn = "createTextureFromKtx"
  /\ texPc = "upload"
  /\ ~ktxMoreLevels(texLocals.level, texArgs.nlevels)
  /\ texRet' = "tex"
  /\ texPc' = "returned"
  /\ UNCHANGED <<texArgs, texLocals, texLog>>
  /\ UNCHANGED NotTex

\* const decodedpng = Filament.decodePng(Filament.Buffer(pngdata), noalpha ? 3 : 4);
\* and the choice of the formats.
PngDecode ==
  /\ texArgs.fn = "createTextureFromPng"
  /\ texPc = "start"
  /\ texLog' = texLog \o <<[op |-> "Buffer"],
                            [op |-> "decodePng",
                             channels |-> IF texArgs.noalpha THEN 3 ELSE 4]>>
  /\ LET f == pngFormats(texArgs.noalpha, texArgs.rgbm)
     IN texLocals' = [supported |-> TRUE, texformat |-> f.texformat,
                      pbformat |-> f.pbformat, pbtype |-> f.pbtype, level |-> 0]
  /\ texPc' = "build"
  /\ UNCHANGED <<texArgs, texRet>>
  /\ UNCHANGED NotTex

\* const tex = Filament.Texture.Builder(). ... .levels(nomips ? 1 : 0xff) ... .build(engine);
PngBuild ==
  /\ texArgs.fn = "createTextureFromPng"
  /\ texPc = "build"
  /\ texLog' = Append(texLog,
                  textureBuild(IF texArgs.nomips THEN 1 ELSE PngLevels,
                               "SAMPLER_2D", texLocals.texformat, texArgs.rgbm))
  /\ texPc' = "upload"
  /\ UNCHANGED <<texArgs, texLocals, texRet>>
  /\ UNCHANGED NotTex

\* tex.setImage(engine, 0, pixelbuffer); if (!nomips) tex.generateMipmaps(engine);
\* return tex;
PngUpload ==
  /\ texArgs.fn = "createTextureFromPng"
  /\ texPc = "upload"
  /\ texLog' = texLog
                \o <<[op |-> "setImage", level |-> 0, blob |-> <<"decodedpng.data">>,
                      pbformat |-> texLocals.pbformat, pbtype |-> texLocals.pbtype]>>
                \o (IF texArgs.nomips THEN <<>> ELSE <<[op |-> "generateMipmaps"]>>)
  /\ texRet' = "tex"
  /\ texPc' = "returned"
  /\ UNCHANGED <<texArgs, texLocals>>
  /\ UNCHANGED NotTex

TexNext ==
  \/ KtxOpen \/ KtxSwitch \/ KtxUnsupported \/ KtxBuild \/ KtxUpload \/ KtxReturn
  \/ PngDecode \/ PngBuild \/ PngUpload

-----------------------------------------------------------------------------
(***************************************************************************)
(* loadFilamesh.                                                           *)
(*                                                                         *)
(* A JavaScript object and the MaterialRegistry are functions from the     *)
(* names they hold to MaterialInstances.                                   *)
(***************************************************************************)

MaterialNames == {"DefaultMaterial", "metal", "wood"}

MaterialInstances == {"mi1", "mi2"}

Undefined == "undefined"

\* The objects and registries over the names and instances above.
Objects == UNION {[keys -> MaterialInstances] : keys \in SUBSET MaterialNames}

EmptyObject == [k \in {} |-> Undefined]

\* registry.set(key, value) / obj[key] = value
Set(obj, key, value) ==
  [k \in DOMAIN obj \cup {key} |-> IF k = key THEN value ELSE obj[k]]

\* for (var key in matinstances) registry.set(key, matinstances[key]);
\* if (definstance) registry.set("DefaultMaterial", definstance);
\* on a new registry.
registerAll(obj, definst) ==
  IF definst # Undefined THEN Set(obj, "DefaultMaterial", definst) ELSE obj

\* A copy that keeps the entries the object already has.
copyBackKeeping(obj, reg) ==
  [k \in DOMAIN obj \cup DOMAIN reg |-> IF k \in DOMAIN obj THEN obj[k] ELSE reg[k]]

\* for (i = 0; i < keys.size(); i++) matinstances[keys.get(i)] = registry.get(keys.get(i));
copyBack(obj, reg) ==
  [k \in DOMAIN obj \cup DOMAIN reg |-> IF k \in DOMAIN reg THEN reg[k] ELSE obj[k]]

\* Filament.MeshIO.loadMeshFromBuffer(engine, buffer, registry): the registries
\* it may leave behind. It keeps the names the registry held and may add the
\* materials the file names and change what a name refers to.
loadMeshFromBuffer(reg) == {r \in Objects : DOMAIN reg \subseteq DOMAIN r}

MeshInit ==
  /\ callerObj \in [given : {TRUE}, props : Objects]
                    \cup {[given |-> FALSE, props |-> EmptyObject]}
  /\ definstance \in MaterialInstances \cup {Undefined}
  /\ matinstances = EmptyObject
  /\ registry = EmptyObject
  /\ meshPc = "start"

\* matinstances = matinstances || {}; the new registry and the two registrations.
MeshRegister ==
  /\ meshPc = "start"
  /\ matinstances' = IF callerObj.given THEN callerObj.props ELSE EmptyObject
  /\ registry' = registerAll(IF callerObj.given THEN callerObj.props ELSE EmptyObject,
                             definstance)
  /\ meshPc' = "load"
  /\ UNCHANGED <<callerObj, definstance>>
  /\ UNCHANGED NotMesh

\* const mesh = Filament.MeshIO.loadMeshFromBuffer(...)
MeshLoad ==
  /\ meshPc = "load"
  /\ registry' \in loadMeshFromBuffer(registry)
  /\ meshPc' = "copy"
  /\ UNCHANGED <<callerObj, definstance, matinstances>>
  /\ UNCHANGED NotMesh

\* The loop over registry.keys() and the return.
MeshReturn ==
  /\ meshPc = "copy"
  /\ matinstances' = copyBack(matinstances, registry)
  /\ meshPc' = "returned"
  /\ UNCHANGED <<callerObj, definstance, registry>>
  /\ UNCHANGED NotMesh

MeshNext == MeshRegister \/ MeshLoad \/ MeshReturn

-----------------------------------------------------------------------------
(***************************************************************************)
(* The specifications: one per part of the file.  The parts share nothing, *)
(* so each specification runs one of them and leaves the others as they    *)
(* are before they are called.                                             *)
(***************************************************************************)

IcoIdle ==
  /\ nsubdivsArg = 0 /\ nsubdivs = 0 /\ icoPc = "idle" /\ gen = 0
  /\ trianglesLength = 0 /\ verticesLength = 0 /\ tangentsLength = -1
  /\ loc = NoLocals /\ wrote = NothingWritten

PackIdle == packValue = Finite(0) /\ packDone = TRUE /\ packResult = 0

BufIdle ==
  /\ typedarray = [buffer |-> "js", type |-> "Uint8Array", byteOffset |-> 0, length |-> 0]
  /\ heap = <<>> /\ jsmem = <<>> /\ atCall = <<>> /\ bd = NoDescriptor /\ bufPc = "idle"
  /\ heapWrites = 0

TexIdle ==
  /\ texArgs = [fn |-> "none"] /\ texPc = "idle" /\ texLocals = NoTexLocals
  /\ texLog = <<>> /\ texRet = "none"

MeshIdle ==
  /\ callerObj = [given |-> FALSE, props |-> EmptyObject] /\ definstance = Undefined
  /\ matinstances = EmptyObject /\ registry = EmptyObject /\ meshPc = "idle"

InitIco == IcoInit /\ PackIdle /\ BufIdle /\ TexIdle /\ MeshIdle

SpecIco == InitIco /\ [][IcoNext]_vars

InitPack == IcoIdle /\ PackInit /\ BufIdle /\ TexIdle /\ MeshIdle

SpecPack == InitPack /\ [][PackNext]_vars

InitBuf == IcoIdle /\ PackIdle /\ BufInit /\ TexIdle /\ MeshIdle

SpecBuf == InitBuf /\ [][BufNext]_vars

InitTex == IcoIdle /\ PackIdle /\ BufIdle /\ TexInit /\ MeshIdle

SpecTex == InitTex /\ [][TexNext]_vars

InitMesh == IcoIdle /\ PackIdle /\ BufIdle /\ TexIdle /\ MeshInit

SpecMesh == InitMesh /\ [][MeshNext]_vars

-----------------------------------------------------------------------------
(***************************************************************************)
(* The claims.                                                             *)
(***************************************************************************)

RECURSIVE Pow4(_)
Pow4(n) == IF n = 0 THEN 1 ELSE 4 * Pow4(n - 1)

\* The recurrence of the vertex count: 12 vertices, and each subdivision adds
\* three per triangle of the 20 * 4^(n-1) triangles it splits.
RECURSIVE VertexCount(_)
VertexCount(n) == IF n = 0 THEN 12 ELSE VertexCount(n - 1) + 3 * (20 * Pow4(n - 1))

\* C1: an IcoSphere constructed with nsubdivs = N has 20 * 4^N triangles
\* (triangles.length / 3): the count is 20 before the first call of subdivide
\* and each call multiplies it by 4, and the constructor makes N calls.
C1_TriangleCount ==
  /\ icoPc \in {"while", "done"} =>
       /\ trianglesLength % 3 = 0
       /\ trianglesLength \div 3 = 20 * Pow4(gen)
  /\ icoPc = "done" =>
       /\ gen = nsubdivsArg
       /\ trianglesLength \div 3 = 20 * Pow4(nsubdivsArg)

C1_Witness ==
  icoPc = "done" /\ nsubdivsArg = 3 /\ gen = 3 /\ trianglesLength = 3 * 1280

\* C2: the vertex count (vertices.length / 3) after N >= 1 subdivisions is the
\* count after N - 1 plus three times the triangle count after N - 1, from
\* 12 vertices and 20 triangles.
C2_VertexCount ==
  /\ icoPc \in {"while", "done"} =>
       /\ verticesLength % 3 = 0
       /\ verticesLength \div 3 = VertexCount(gen)
  /\ icoPc = "for" =>
       /\ loc.nsrcverts = VertexCount(gen)
       /\ loc.ndstverts = loc.nsrcverts + 3 * (20 * Pow4(gen))
  /\ icoPc = "done" => verticesLength \div 3 = VertexCount(nsubdivsArg)

C2_Witness ==
  icoPc = "done" /\ nsubdivsArg = 2 /\ verticesLength = 3 * 312

\* C8: every iteration of subdivide's loop replaces source triangle t, with
\* corners (a, b, c), by the four triangles (a, m_ab, m_ca), (m_ab, b, m_bc),
\* (m_ca, m_ab, m_bc), (c, m_ca, m_bc), where m_ab, m_bc, m_ca are the new
\* midpoint vertices at indices nsrcverts + 3t, + 3t + 1, + 3t + 2; the existing
\* vertices stay at their indices; and each index stored in the 16-bit
\* triangles array is the index of the intended vertex and is less than the
\* vertex count.
C8_Subdivide ==
  icoPc = "for" /\ loc.tri > 0 =>
    LET t == loc.tri - 1
        a == triangles(gen, 3 * t)
        b == triangles(gen, 3 * t + 1)
        c == triangles(gen, 3 * t + 2)
        m_ab == loc.nsrcverts + 3 * t
        m_bc == loc.nsrcverts + 3 * t + 1
        m_ca == loc.nsrcverts + 3 * t + 2
    IN /\ wrote.tris = << a, m_ab, m_ca,   m_ab, b, m_bc,   m_ca, m_ab, m_bc,   c, m_ca, m_bc >>
       /\ \A k \in 1..12 : wrote.tris[k] < loc.ndstverts
       /\ wrote.verts = << [a |-> a, b |-> b], [a |-> b, b |-> c], [a |-> c, b |-> a] >>
       /\ vertices(gen + 1, m_ab) = wrote.verts[1]
       /\ vertices(gen + 1, m_bc) = wrote.verts[2]
       /\ vertices(gen + 1, m_ca) = wrote.verts[3]
       /\ \A v \in {a, b, c} : v < loc.nsrcverts /\ vertices(gen + 1, v) = vertices(gen, v)

\* C3: packSnorm16 clamps to [-1, 1], scales by 32767 and rounds:
\* packSnorm16(1) = 32767, packSnorm16(-1) = -32767, packSnorm16(0) = 0, every
\* value above 1 gives 32767, every value below -1 gives -32767, a value in
\* between gives the integer nearest to 32767 times it, and the result is
\* always in -32767 .. 32767.
C3_PackSnorm16 ==
  packDone =>
    /\ packValue = Finite(PackDen) => packResult = 32767
    /\ packValue = Finite(-PackDen) => packResult = -32767
    /\ packValue = Finite(0) => packResult = 0
    /\ NumLess(Finite(PackDen), packValue) => packResult = 32767
    /\ NumLess(packValue, Finite(-PackDen)) => packResult = -32767
    /\ (~NumLess(Finite(PackDen), packValue) /\ ~NumLess(packValue, Finite(-PackDen))) =>
         /\ 2 * PackDen * packResult <= 2 * packValue.num * 32767 + PackDen
         /\ 2 * packValue.num * 32767 + PackDen < 2 * PackDen * (packResult + 1)
    /\ packResult \in -32767..32767

C3_Witness ==
  /\ packDone
  /\ NumLess(Finite(PackDen), packValue)
  /\ packValue.inf = 0
  /\ packResult = 32767

\* C4: when the argument of Buffer or PixelBuffer is a view on the heap, the
\* descriptor's bytes are the argument's bytes as they were at the call, and
\* stay so when the heap region the argument viewed is written afterwards.
C4_HeapAliasCopy ==
  bufPc = "returned" /\ typedarray.buffer = "heap" => getBytes(bd, heap) = atCall

\* C5: for every non-empty typed array of any element type, on the heap or
\* not, the descriptor Buffer or PixelBuffer returns holds a byte-for-byte
\* copy: typedarray.byteLength bytes, the same byte at every offset.
C5_ByteCopy ==
  bufPc = "returned" /\ heapWrites = 0 =>
    /\ bd.size = byteLength(typedarray)
    /\ \A i \in 1..byteLength(typedarray) :
         /\ i <= bd.size
         /\ heap[bd.ptr + i] = atCall[i]

TexBuilds == {i \in DOMAIN texLog : texLog[i].op = "Texture.Builder.build"}

TexUploads == {i \in DOMAIN texLog : texLog[i].op \in {"setImage", "setImageCube"}}

\* C6: when the bundle's format is neither RGB nor RGBA, createTextureFromKtx
\* logs an error and returns null, and on that path makes no Texture builder
\* call, no build and no setImage / setImageCube.
C6_UnsupportedFormat ==
  (texArgs.fn = "createTextureFromKtx" /\ texArgs.glInternalFormat \notin {"RGB", "RGBA"}) =>
    /\ TexBuilds = {} /\ TexUploads = {}
    /\ texPc \in {"start", "switch", "returned"}
    /\ texPc = "returned" =>
         /\ texRet = "null"
         /\ texLog # <<>> /\ texLog[Len(texLog)].op = "console.error"

C6_Witness ==
  /\ texArgs.fn = "createTextureFromKtx" /\ texArgs.glInternalFormat = "LUMINANCE"
  /\ texPc = "returned" /\ texRet = "null"

\* C9: on a supported format createTextureFromKtx builds the texture once,
\* with levels = the bundle's mip level count, and then uploads one image per
\* level, in the order 0 .. nlevels - 1, every upload after the build:
\* setImageCube with the level's cube blob for a cubemap, setImage with blob
\* [level, 0, 0] otherwise, never both.
C9_KtxUploads ==
  texArgs.fn = "createTextureFromKtx" =>
    /\ Cardinality(TexBuilds) <= 1
    /\ \A i \in TexBuilds : texLog[i].levels = texArgs.nlevels
    /\ \A u \in TexUploads :
         /\ \E i \in TexBuilds : i < u
         /\ texLog[u].level = Cardinality({w \in TexUploads : w < u})
         /\ IF texArgs.isCubemap
              THEN /\ texLog[u].op = "setImageCube"
                   /\ texLog[u].blob = <<"getCubeBlob", texLog[u].level>>
              ELSE /\ texLog[u].op = "setImage"
                   /\ texLog[u].blob = <<"getBlob", texLog[u].level, 0, 0>>
    /\ (texPc = "returned" /\ texArgs.glInternalFormat \in {"RGB", "RGBA"}) =>
         /\ texRet = "tex"
         /\ Cardinality(TexBuilds) = 1
         /\ Cardinality(TexUploads) = texArgs.nlevels

C9_Witness ==
  /\ texArgs.fn = "createTextureFromKtx" /\ texArgs.isCubemap /\ texArgs.nlevels = 2
  /\ texPc = "returned" /\ texRet = "tex"
  /\ Cardinality(TexUploads) = 2

\* C10: in createTextureFromKtx and createTextureFromPng the RGBM flag given
\* to the texture builder is true exactly when the pixel buffers uploaded to
\* the texture have the RGBM format; a texture of format RGB8 is never built
\* with the flag set.
C10_RgbmFlag ==
  \A i \in TexBuilds :
    /\ texLog[i].rgbm <=> (texLocals.pbformat = "RGBM")
    /\ \A u \in TexUploads : texLog[i].rgbm <=> (texLog[u].pbformat = "RGBM")
    /\ texLog[i].format = "RGB8" => ~texLog[i].rgbm

\* C7: when loadFilamesh returns, the caller's matinstances object maps every
\* name the registry holds after loading to the registry's instance; before
\* loading the registry holds the caller's entries, and a given definstance
\* under "DefaultMaterial", in place of a caller's entry of that name.
C7_Matinstances ==
  /\ meshPc = "load" =>
       /\ \A k \in DOMAIN callerObj.props :
            /\ k \in DOMAIN registry
            /\ registry[k] = IF k = "DefaultMaterial" /\ definstance # Undefined
                               THEN definstance ELSE callerObj.props[k]
       /\ definstance # Undefined =>
            /\ "DefaultMaterial" \in DOMAIN registry
            /\ registry["DefaultMaterial"] = definstance
  /\ (meshPc = "returned" /\ callerObj.given) =>
       \A k \in DOMAIN registry :
         k \in DOMAIN matinstances /\ matinstances[k] = registry[k]

C7_Witness ==
  /\ meshPc = "returned" /\ callerObj.given
  /\ "DefaultMaterial" \in DOMAIN callerObj.props
  /\ definstance # Undefined /\ callerObj.props["DefaultMaterial"] # definstance
  /\ \E k \in DOMAIN registry : k \notin DOMAIN callerObj.props
  /\ matinstances # callerObj.props

=============================================================================
